---- MODULE Spec2Model ----
(***************************************************************************)
(* Model of src/bot.py: the weighted buy decision, the regime-dependent    *)
(* sell signal and the position simulation driven by the parameter sweep   *)
(* of backtest_with_sweep.                                                 *)
(*                                                                         *)
(* Units.  Prices, ATR, EMA, VWAP, MACD_diff, signal weights, thresholds   *)
(* and scores are integers in thousandths (100000 is 100.000, 500 is 0.5). *)
(* The tp/sl multipliers and the factors 1.5 and 1.0 of should_sell are in *)
(* tenths (25 is 2.5), so a price level "entry + mult x ATR" is held in    *)
(* ten-thousandths: 10 * entry + mult * ATR, and a price p is compared     *)
(* against it as 10 * p.  RSI and ADX are plain integers.  A timestamp is  *)
(* the number of minutes since the first bar.                              *)
(***************************************************************************)
EXTENDS Integers, Sequences, FiniteSets, TLC

VARIABLES
    df,                 \* the bar series handed to backtest_with_sweep
    sweep,              \* the five candidate lists handed to backtest_with_sweep
    pc,                 \* position in backtest_with_sweep / main
    pos,                \* positions of the five nested for loops (1-based)
    combo_counter,
    total_combinations,
    i,                  \* bar index of the while loop (0-based, as in the code)
    j,                  \* bar index of the inner for loop
    position,           \* locals set at entry (buy_price .. sl), or NoPosition
    trades,             \* trade log of the running combination
    all_trades,
    inserted,           \* calls of backtest_collection.insert_many, in order
    evaluated,          \* history: bar indices at which should_buy was called in this run
    entries,            \* history: bar indices at which this run opened a position
    runs,               \* history: the parameter combination of every run started
    logs,               \* history: the trade log of every run ended ("Trades executed")
    summary             \* what main prints after the sweep, NoSummary before

vars == <<df, sweep, pc, pos, combo_counter, total_combinations, i, j, position,
          trades, all_trades, inserted, evaluated, entries, runs, logs, summary>>

----------------------------------------------------------------------------
(* Bounds of the model *)

\* longest freely chosen part of a bar series
MaxTail == 3

----------------------------------------------------------------------------
(* Inputs *)

\* window of the rolling ATR mean in get_adaptive_rsi_bounds
RollWindow == 20

\* minutes between two bars (interval="5m")
BarMinutes == 5

MkBar(close, atr, rsi, ema9, ema21, vwap, macd, adx) ==
    [close |-> close, ATR |-> atr, RSI |-> rsi, EMA9 |-> ema9, EMA21 |-> ema21,
     VWAP |-> vwap, MACD_diff |-> macd, ADX |-> adx]

\* trending, all three buy signals, no sell condition
BarBuy  == MkBar(100000, 2000, 50, 101000, 99000, 99000, 100, 30)
\* trending, ATR 0 (a flat market), close below VWAP: signals 2 and 3 only
BarFlat == MkBar(100000, 0, 50, 101000, 99000, 101000, 100, 30)
\* trending, overbought by every bound, close 105
BarTp   == MkBar(105000, 2000, 72, 106000, 100000, 100000, 100, 30)
\* ranging, RSI between the narrow and the wide upper bound, close 104, every
\* trend exit condition true, no ranging one unless the bounds are narrow
BarMid  == MkBar(104000, 2500, 67, 99000, 100000, 100000, -100, 15)
\* ranging with ADX exactly 25, RSI inside every bound, MACD_diff positive,
\* close 98 below VWAP
BarSl   == MkBar(98000, 3000, 50, 98000, 100000, 100000, 100, 25)

BarSet == {BarBuy, BarFlat, BarTp, BarMid, BarSl}

\* bars a series may repeat to fill the rolling window before its free part
WarmupBars == {BarBuy}

Tails == UNION {[1..t -> BarSet] : t \in 1..MaxTail}

Warmup(b) == [n \in 1..(RollWindow - 1) |-> b]

\* the bar series: the rows of the frame returned by apply_indicators
Series == Tails \cup {Warmup(b) \o t : b \in WarmupBars, t \in Tails}

W1 == <<500, 300, 200>>
W2 == <<700, 200, 100>>

MkSweep(tps, sls, mhs, ws, ths) ==
    [tp_multipliers |-> tps, sl_multipliers |-> sls, max_holds |-> mhs,
     buy_weights |-> ws, buy_thresholds |-> ths]

\* argument lists of backtest_with_sweep (values of the defaults, shorter lists)
SweepInputs ==
    { MkSweep(<<20, 25>>, <<10>>, <<2, 3>>, <<W1>>, <<500>>),
      MkSweep(<<25>>, <<10, 15>>, <<3>>, <<W1, W2>>, <<600>>),
      MkSweep(<<20>>, <<15>>, <<1, 2>>, <<W2>>, <<500, 700>>) }

\* the default argument lists of backtest_with_sweep
DefaultSweep ==
    MkSweep(<<20, 25, 30>>, <<10, 15, 20>>, <<30, 40, 50>>, <<W1, W2>>, <<500, 600, 700>>)

\* argument lists in which a value is repeated, so that one combination is run
\* more than once: with another combination in between, and back to back
ReplayInputs ==
    { MkSweep(<<25>>, <<10>>, <<2, 3, 2>>, <<W1>>, <<500>>),
      MkSweep(<<20, 20>>, <<15>>, <<3>>, <<W2>>, <<500>>) }

\* argument lists that differ in max_hold alone, from 1 up
HoldInputs ==
    { MkSweep(<<20>>, <<15>>, <<1, 2, 3>>, <<W2>>, <<500>>) }

\* argument lists holding a negative tp or sl multiplier
DegenerateInputs ==
    { MkSweep(<<-20, 20>>, <<10>>, <<2, 3>>, <<W1>>, <<500>>),
      MkSweep(<<20>>, <<-10>>, <<3>>, <<W1>>, <<500>>) }

Fill(n, b) == [k \in 1..n |-> b]

\* a trending bar with fast EMA above slow EMA, RSI 45, ADX 30 and close above
\* VWAP, either sign of MACD_diff
Bar20(macd) == MkBar(100000, 2000, 45, 101000, 99000, 99000, macd, 30)

\* 60-bar frames whose bar 20 is such a bar with an ATR not above the rolling
\* mean: after ranging bars (no entry before bar 20) or after trending buy
\* bars, followed by bars that reach a take-profit price
Bar20Series ==
    { Fill(20, a) \o <<Bar20(m)>> \o Fill(39, BarTp) :
          a \in {BarMid, BarBuy}, m \in {100, -100} }

----------------------------------------------------------------------------
(* Signal functions.  A window w is df.iloc[:n], a non-empty prefix of df. *)

Window(d, n) == SubSeq(d, 1, n)

Latest(w) == w[Len(w)]

detect_market_regime(w) ==
    IF Latest(w).ADX > 25 THEN "trending" ELSE "ranging"

RECURSIVE AtrSum(_, _, _)
AtrSum(w, from, to) ==
    IF from > to THEN 0 ELSE w[from].ATR + AtrSum(w, from + 1, to)

\* the comparison with the equality included
AtrAboveMeanOrEqual(w) ==
    /\ Len(w) >= RollWindow
    /\ RollWindow * Latest(w).ATR >= AtrSum(w, Len(w) - RollWindow + 1, Len(w))

\* atr > atr_mean, where atr_mean is NaN (comparison false) for a window of
\* fewer than RollWindow bars
AtrAboveMean(w) ==
    /\ Len(w) >= RollWindow
    /\ RollWindow * Latest(w).ATR > AtrSum(w, Len(w) - RollWindow + 1, Len(w))

get_adaptive_rsi_bounds(w) ==
    IF AtrAboveMean(w) THEN <<45, 65>> ELSE <<40, 70>>

buy_signal_ema_rsi_vwap(w) ==
    LET latest == Latest(w)
        b == get_adaptive_rsi_bounds(w)
    IN  /\ detect_market_regime(w) = "trending"
        /\ latest.EMA9 > latest.EMA21
        /\ b[1] < latest.RSI /\ latest.RSI < b[2]
        /\ latest.close > latest.VWAP
        /\ latest.ADX > 20

buy_signal_rsi_only(w) ==
    LET latest == Latest(w)
        b == get_adaptive_rsi_bounds(w)
    IN  b[1] < latest.RSI /\ latest.RSI < b[2]

\* the momentum signal without the ADX condition
buy_signal_macd_only(w) ==
    LET latest == Latest(w)
    IN  latest.MACD_diff > 0

buy_signal_macd_adx(w) ==
    LET latest == Latest(w)
    IN  latest.MACD_diff > 0 /\ latest.ADX > 25

Signals(w) ==
    <<buy_signal_ema_rsi_vwap(w), buy_signal_rsi_only(w), buy_signal_macd_adx(w)>>

RECURSIVE ZipSum(_, _, _)
\* sum(w for s, w in zip(signals, weights) if s), from position k on
ZipSum(signals, weights, k) ==
    IF k > Len(signals) \/ k > Len(weights) THEN 0
    ELSE (IF signals[k] THEN weights[k] ELSE 0) + ZipSum(signals, weights, k + 1)

\* the decision taken only above the threshold
should_buyStrict(w, weights, threshold) ==
    LET score == ZipSum(Signals(w), weights, 1)
    IN  [decision |-> score > threshold, score |-> score]

should_buy(w, weights, threshold) ==
    LET score == ZipSum(Signals(w), weights, 1)
    IN  [decision |-> score >= threshold, score |-> score]

\* the trend-following exits applied in every regime
should_sellTrendAlways(w, entry_price) ==
    LET latest == Latest(w)
        rsi_upper == get_adaptive_rsi_bounds(w)[2]
    IN  \/ latest.EMA9 < latest.EMA21
        \/ latest.RSI > rsi_upper
        \/ 10 * latest.close < 10 * entry_price - 15 * latest.ATR
        \/ latest.MACD_diff < 0
        \/ latest.ADX < 20

should_sell(w, entry_price) ==
    LET latest == Latest(w)
        atr == latest.ATR
        rsi == latest.RSI
        price == latest.close
        rsi_upper == get_adaptive_rsi_bounds(w)[2]
    IN  IF detect_market_regime(w) = "trending"
        THEN \/ latest.EMA9 < latest.EMA21
             \/ rsi > rsi_upper
             \/ 10 * price < 10 * entry_price - 15 * atr
             \/ latest.MACD_diff < 0
             \/ latest.ADX < 20
        ELSE \/ rsi > rsi_upper
             \/ 10 * price < 10 * entry_price - 10 * atr
             \/ price < latest.VWAP

----------------------------------------------------------------------------
(* backtest_with_sweep *)

NoPosition == [open |-> FALSE]

\* df.iloc[n] for the 0-based index n
Row(n) == df[n + 1]

\* df.iloc[n]["timestamp"]: bars are BarMinutes apart
Timestamp(n) == n * BarMinutes

\* round(x, 2) of a value in thousandths: to the nearest hundredth, ties to even
Round2(x) ==
    LET q == x \div 10
        r == x % 10
    IN  IF r < 5 THEN 10 * q
        ELSE IF r > 5 THEN 10 * (q + 1)
        ELSE IF q % 2 = 0 THEN 10 * q ELSE 10 * (q + 1)

Lists(s) ==
    <<s.tp_multipliers, s.sl_multipliers, s.max_holds, s.buy_weights, s.buy_thresholds>>

RECURSIVE LenProduct(_, _)
LenProduct(ls, k) == IF k > Len(ls) THEN 1 ELSE Len(ls[k]) * LenProduct(ls, k + 1)

\* the loop variables of the five nested for loops at loop positions p
Combo(s, p) ==
    [tp_mult |-> s.tp_multipliers[p[1]], sl_mult |-> s.sl_multipliers[p[2]],
     max_hold |-> s.max_holds[p[3]], weights |-> s.buy_weights[p[4]],
     threshold |-> s.buy_thresholds[p[5]]]

cur == Combo(sweep, pos)

FirstPos == <<1, 1, 1, 1, 1>>

\* the innermost loop that still has an element left, 0 when all are exhausted
RECURSIVE Innermost(_, _, _)
Innermost(ls, p, k) ==
    IF k = 0 THEN 0
    ELSE IF p[k] < Len(ls[k]) THEN k
    ELSE Innermost(ls, p, k - 1)

\* the step that leaves the inner loops where they ended
NextPosNoRestart(ls, p) ==
    LET k == Innermost(ls, p, Len(ls))
    IN  [n \in 1..Len(ls) |-> IF n = k THEN p[n] + 1 ELSE p[n]]

\* the nested for loops step the innermost unfinished loop and restart the
\* loops inside it
NextPos(ls, p) ==
    LET k == Innermost(ls, p, Len(ls))
    IN  [n \in 1..Len(ls) |-> IF n < k THEN p[n] ELSE IF n = k THEN p[n] + 1 ELSE 1]

LastPos(ls, p) == Innermost(ls, p, Len(ls)) = 0

\* the chain with the stop-loss check ahead of the take-profit check
ExitReasonSlFirst(price, tp, sl, sell, jj, ii, max_hold) ==
    IF 10 * price <= sl THEN "SL"
    ELSE IF 10 * price >= tp THEN "TP"
    ELSE IF sell THEN "Signal"
    ELSE IF jj = ii + max_hold - 1 THEN "Timeout"
    ELSE "None"

\* the chain with the timeout check ahead of the sell signal
ExitReasonTimeoutFirst(price, tp, sl, sell, jj, ii, max_hold) ==
    IF 10 * price >= tp THEN "TP"
    ELSE IF 10 * price <= sl THEN "SL"
    ELSE IF jj = ii + max_hold - 1 THEN "Timeout"
    ELSE IF sell THEN "Signal"
    ELSE "None"

\* the chain without its timeout branch
ExitReasonNoTimeout(price, tp, sl, sell, jj, ii, max_hold) ==
    IF 10 * price >= tp THEN "TP"
    ELSE IF 10 * price <= sl THEN "SL"
    ELSE IF sell THEN "Signal"
    ELSE "None"

\* the if/elif chain of the inner for loop; "None" stands for `continue`
ExitReason(price, tp, sl, sell, jj, ii, max_hold) ==
    IF 10 * price >= tp THEN "TP"
    ELSE IF 10 * price <= sl THEN "SL"
    ELSE IF sell THEN "Signal"
    ELSE IF jj = ii + max_hold - 1 THEN "Timeout"
    ELSE "None"

\* the exit without the jump of line 192
AfterExitNoJump(jj) == i + 1

\* the scan resuming at the entry bar
AfterExitStay(jj) == i

\* the exit bar itself used as the next bar to evaluate
AfterExitSameBar(jj) == jj

\* lines 192-194: i = j, break, i += 1
AfterExit(jj) == jj + 1

\* the trade with the sign of pnl reversed
MkTradePnlReversed(p, jj, reason, c) ==
    LET exit_price == Row(jj).close
        exit_time == Timestamp(jj)
    IN  [symbol |-> "BTCUSDT",
         entry_time |-> p.buy_time,
         entry_price |-> Round2(p.buy_price),
         exit_time |-> exit_time,
         exit_price |-> Round2(exit_price),
         pnl |-> Round2(p.buy_price - exit_price),
         reason |-> reason,
         duration_min |-> exit_time - p.buy_time,
         tp_mult |-> c.tp_mult,
         sl_mult |-> c.sl_mult,
         max_hold |-> c.max_hold,
         buy_weights |-> c.weights,
         buy_threshold |-> c.threshold,
         buy_signal_score |-> Round2(p.score)]

\* lines 170-190: the trade record of the position p closed on bar jj
MkTrade(p, jj, reason, c) ==
    LET exit_price == Row(jj).close
        exit_time == Timestamp(jj)
    IN  [symbol |-> "BTCUSDT",
         entry_time |-> p.buy_time,
         entry_price |-> Round2(p.buy_price),
         exit_time |-> exit_time,
         exit_price |-> Round2(exit_price),
         pnl |-> Round2(exit_price - p.buy_price),
         reason |-> reason,
         duration_min |-> exit_time - p.buy_time,
         tp_mult |-> c.tp_mult,
         sl_mult |-> c.sl_mult,
         max_hold |-> c.max_hold,
         buy_weights |-> c.weights,
         buy_threshold |-> c.threshold,
         buy_signal_score |-> Round2(p.score)]

NoSummary == [kind |-> "none"]

\* a / b as Python evaluates it: an error for b = 0, else the exact quotient
Divide(a, b) ==
    IF b = 0 THEN [error |-> "ZeroDivisionError"] ELSE [num |-> a, den |-> b]

RECURSIVE SumPnl(_, _)
\* sum(t["pnl"] for t in trades), from position k on
SumPnl(tr, k) == IF k > Len(tr) THEN 0 ELSE tr[k].pnl + SumPnl(tr, k + 1)

\* sum(1 for t in trades if t["pnl"] > 0)
Wins(tr) == Cardinality({k \in 1..Len(tr) : tr[k].pnl > 0})

\* the summary that divides whatever the trade count is
SummarizeUnguarded(tr) ==
    [kind |-> "stats",
     total |-> Len(tr),
     wins |-> Wins(tr),
     win_rate |-> Divide(Wins(tr), Len(tr)),
     avg_pnl |-> Divide(SumPnl(tr, 1), Len(tr))]

\* lines 215-222: the statistics when there are trades, "No trades executed."
\* otherwise
Summarize(tr) ==
    IF tr # <<>>
    THEN [kind |-> "stats",
          total |-> Len(tr),
          wins |-> Wins(tr),
          win_rate |-> Divide(Wins(tr), Len(tr)),
          avg_pnl |-> Divide(SumPnl(tr, 1), Len(tr))]
    ELSE [kind |-> "no_trades"]

Init ==
    /\ df \in Series
    /\ sweep \in SweepInputs
    /\ pc = "combo"
    /\ pos = FirstPos
    /\ combo_counter = 0
    /\ total_combinations = LenProduct(Lists(sweep), 1)
    /\ i = 0
    /\ j = 0
    /\ position = NoPosition
    /\ trades = <<>>
    /\ all_trades = <<>>
    /\ inserted = <<>>
    /\ evaluated = {}
    /\ entries = {}
    /\ runs = <<>>
    /\ logs = <<>>
    /\ summary = NoSummary

\* the same call with argument lists that repeat a value
InitReplay ==
    /\ df \in Series
    /\ sweep \in ReplayInputs
    /\ pc = "combo"
    /\ pos = FirstPos
    /\ combo_counter = 0
    /\ total_combinations = LenProduct(Lists(sweep), 1)
    /\ i = 0
    /\ j = 0
    /\ position = NoPosition
    /\ trades = <<>>
    /\ all_trades = <<>>
    /\ inserted = <<>>
    /\ evaluated = {}
    /\ entries = {}
    /\ runs = <<>>
    /\ logs = <<>>
    /\ summary = NoSummary

\* the call with the default arguments on a 60-bar frame
InitBar20 ==
    /\ df \in Bar20Series
    /\ sweep = DefaultSweep
    /\ pc = "combo"
    /\ pos = FirstPos
    /\ combo_counter = 0
    /\ total_combinations = LenProduct(Lists(sweep), 1)
    /\ i = 0
    /\ j = 0
    /\ position = NoPosition
    /\ trades = <<>>
    /\ all_trades = <<>>
    /\ inserted = <<>>
    /\ evaluated = {}
    /\ entries = {}
    /\ runs = <<>>
    /\ logs = <<>>
    /\ summary = NoSummary

\* the call with a negative multiplier among its arguments
InitDegenerate ==
    /\ df \in Series
    /\ sweep \in DegenerateInputs
    /\ pc = "combo"
    /\ pos = FirstPos
    /\ combo_counter = 0
    /\ total_combinations = LenProduct(Lists(sweep), 1)
    /\ i = 0
    /\ j = 0
    /\ position = NoPosition
    /\ trades = <<>>
    /\ all_trades = <<>>
    /\ inserted = <<>>
    /\ evaluated = {}
    /\ entries = {}
    /\ runs = <<>>
    /\ logs = <<>>
    /\ summary = NoSummary

\* the call with the max_hold lists
InitHold ==
    /\ df \in Series
    /\ sweep \in HoldInputs
    /\ pc = "combo"
    /\ pos = FirstPos
    /\ combo_counter = 0
    /\ total_combinations = LenProduct(Lists(sweep), 1)
    /\ i = 0
    /\ j = 0
    /\ position = NoPosition
    /\ trades = <<>>
    /\ all_trades = <<>>
    /\ inserted = <<>>
    /\ evaluated = {}
    /\ entries = {}
    /\ runs = <<>>
    /\ logs = <<>>
    /\ summary = NoSummary

\* a run that starts at the bar index the previous run stopped at
StartComboKeepsIndex ==
    /\ pc = "combo"
    /\ combo_counter' = combo_counter + 1
    /\ trades' = <<>>
    /\ i' = i
    /\ position' = NoPosition
    /\ evaluated' = {}
    /\ entries' = {}
    /\ runs' = Append(runs, cur)
    /\ pc' = "scan"
    /\ UNCHANGED <<df, sweep, pos, total_combinations, j, all_trades, inserted>>
    /\ UNCHANGED <<logs, summary>>

\* a run that starts with the trade log the previous run left
StartComboKeepsTrades ==
    /\ pc = "combo"
    /\ combo_counter' = combo_counter + 1
    /\ trades' = trades
    /\ i' = 0
    /\ position' = NoPosition
    /\ evaluated' = {}
    /\ entries' = {}
    /\ runs' = Append(runs, cur)
    /\ pc' = "scan"
    /\ UNCHANGED <<df, sweep, pos, total_combinations, j, all_trades, inserted>>
    /\ UNCHANGED <<logs, summary>>

\* lines 134-138: the body of the innermost for loop starts a run
StartCombo ==
    /\ pc = "combo"
    /\ combo_counter' = combo_counter + 1
    /\ trades' = <<>>
    /\ i' = 0
    /\ position' = NoPosition
    /\ evaluated' = {}
    /\ entries' = {}
    /\ runs' = Append(runs, cur)
    /\ pc' = "scan"
    /\ UNCHANGED <<df, sweep, pos, total_combinations, j, all_trades, inserted>>
    /\ UNCHANGED <<logs, summary>>

\* the while loop running up to the last bar
WhileCondToLastBar == i < Len(df) - 1

\* line 139
WhileCond == i < Len(df) - cur.max_hold

BuyAt(n) == should_buy(Window(df, n + 1), cur.weights, cur.threshold)

\* lines 139-142, 194: should_buy is false, the while loop steps to the next bar
Scan ==
    /\ pc = "scan"
    /\ WhileCond
    /\ ~BuyAt(i).decision
    /\ evaluated' = evaluated \cup {i}
    /\ i' = i + 1
    /\ UNCHANGED <<df, sweep, pc, pos, combo_counter, total_combinations, j, position,
                   trades, all_trades, inserted, entries, runs>>
    /\ UNCHANGED <<logs, summary>>

OpenPosition(n, c) ==
    LET buy_price == Row(n).close
        atr == Row(n).ATR
    IN  [open |-> TRUE,
         buy_price |-> buy_price,
         buy_time |-> Timestamp(n),
         atr |-> atr,
         tp |-> 10 * buy_price + c.tp_mult * atr,
         sl |-> 10 * buy_price - c.sl_mult * atr,
         score |-> should_buy(Window(df, n + 1), c.weights, c.threshold).score]

\* lines 139-155: should_buy is true, the entry locals are set and the for
\* loop over range(i+1, i+max_hold) starts; an empty range falls through to
\* line 194
Enter ==
    /\ pc = "scan"
    /\ WhileCond
    /\ BuyAt(i).decision
    /\ evaluated' = evaluated \cup {i}
    /\ entries' = entries \cup {i}
    /\ IF i + 1 < i + cur.max_hold
       THEN /\ position' = OpenPosition(i, cur)
            /\ j' = i + 1
            /\ pc' = "hold"
            /\ i' = i
       ELSE /\ position' = NoPosition
            /\ j' = j
            /\ pc' = "scan"
            /\ i' = i + 1
    /\ UNCHANGED <<df, sweep, pos, combo_counter, total_combinations,
                   trades, all_trades, inserted, runs>>
    /\ UNCHANGED <<logs, summary>>

\* the levels recomputed from the ATR of the examined bar
ReasonAtRecomputed(jj) ==
    ExitReason(Row(jj).close,
               10 * position.buy_price + cur.tp_mult * Row(jj).ATR,
               10 * position.buy_price - cur.sl_mult * Row(jj).ATR,
               should_sell(Window(df, jj + 1), position.buy_price),
               jj, i, cur.max_hold)

\* lines 156-168: the checks of bar jj against the open position
ReasonAt(jj) ==
    ExitReason(Row(jj).close, position.tp, position.sl,
               should_sell(Window(df, jj + 1), position.buy_price),
               jj, i, cur.max_hold)

\* lines 155-168: no check holds on bar j, the for loop continues; when the
\* range is exhausted the loop ends without a trade (line 194)
Hold ==
    /\ pc = "hold"
    /\ ReasonAt(j) = "None"
    /\ IF j + 1 < i + cur.max_hold
       THEN /\ j' = j + 1
            /\ UNCHANGED <<i, pc, position>>
       ELSE /\ i' = i + 1
            /\ pc' = "scan"
            /\ position' = NoPosition
            /\ j' = j
    /\ UNCHANGED <<df, sweep, pos, combo_counter, total_combinations,
                   trades, all_trades, inserted, evaluated, entries, runs>>
    /\ UNCHANGED <<logs, summary>>

\* lines 155-194: a check holds on bar j, the trade is appended, i jumps to j
\* and the while loop steps past it
Exit ==
    /\ pc = "hold"
    /\ ReasonAt(j) # "None"
    /\ trades' = Append(trades, MkTrade(position, j, ReasonAt(j), cur))
    /\ i' = AfterExit(j)
    /\ position' = NoPosition
    /\ pc' = "scan"
    /\ UNCHANGED <<df, sweep, pos, combo_counter, total_combinations, j,
                   all_trades, inserted, evaluated, entries, runs>>
    /\ UNCHANGED <<logs, summary>>

\* lines 139, 196-200 and the loop headers 129-133: the while loop ends, the
\* run's trades are saved and collected, and the for loops step or finish
EndCombo ==
    /\ pc = "scan"
    /\ ~WhileCond
    /\ inserted' = IF trades # <<>> THEN Append(inserted, trades) ELSE inserted
    /\ all_trades' = all_trades \o trades
    /\ logs' = Append(logs, trades)
    /\ summary' = summary
    /\ IF LastPos(Lists(sweep), pos)
       THEN pc' = "return" /\ pos' = pos
       ELSE pc' = "combo" /\ pos' = NextPos(Lists(sweep), pos)
    /\ UNCHANGED <<df, sweep, combo_counter, total_combinations, i, j, position,
                   trades, evaluated, entries, runs>>

\* line 201
Return ==
    /\ pc = "return"
    /\ pc' = "done"
    /\ UNCHANGED <<df, sweep, pos, combo_counter, total_combinations, i, j, position,
                   trades, all_trades, inserted, evaluated, entries, runs>>
    /\ UNCHANGED <<logs, summary>>

\* lines 212-222: main prints the summary of the trades the sweep returned
Summary ==
    /\ pc = "done"
    /\ summary' = Summarize(all_trades)
    /\ pc' = "end"
    /\ UNCHANGED <<df, sweep, pos, combo_counter, total_combinations, i, j, position,
                   trades, all_trades, inserted, evaluated, entries, runs, logs>>

Next == StartCombo \/ Scan \/ Enter \/ Hold \/ Exit \/ EndCombo \/ Return \/ Summary

Spec == Init /\ [][Next]_vars

\* the interpreter runs the next statement as long as there is one
FairSpec == InitHold /\ [][Next]_vars /\ WF_vars(Next)

SpecReplay == InitReplay /\ [][Next]_vars

SpecBar20 == InitBar20 /\ [][Next]_vars

SpecDegenerate == InitDegenerate /\ [][Next]_vars

----------------------------------------------------------------------------
(* Reading a recorded trade back against the bar series *)

\* the combination of the run that is under way or has just ended (the loop
\* positions already point at the next one between two runs)
ran == IF runs = <<>> THEN cur ELSE runs[Len(runs)]

EntryIdx(t) == t.entry_time \div BarMinutes
ExitIdx(t) == t.exit_time \div BarMinutes

\* the price levels fixed by the entry bar of trade t, in ten-thousandths
TpLevel(t) == 10 * Row(EntryIdx(t)).close + t.tp_mult * Row(EntryIdx(t)).ATR
SlLevel(t) == 10 * Row(EntryIdx(t)).close - t.sl_mult * Row(EntryIdx(t)).ATR

\* the four checks of trade t on bar k
TpHit(t, k) == 10 * Row(k).close >= TpLevel(t)
SlHit(t, k) == 10 * Row(k).close <= SlLevel(t)
SellHit(t, k) == should_sell(Window(df, k + 1), Row(EntryIdx(t)).close)
TimeoutHit(t, k) == k = EntryIdx(t) + t.max_hold - 1
AnyHit(t, k) == TpHit(t, k) \/ SlHit(t, k) \/ SellHit(t, k) \/ TimeoutHit(t, k)

TradeSet == {trades[n] : n \in 1..Len(trades)}

\* a position of the running combination entered at bar n, in the shape the
\* checks above read
PosAt(n) ==
    [entry_time |-> Timestamp(n), tp_mult |-> ran.tp_mult, sl_mult |-> ran.sl_mult,
     max_hold |-> ran.max_hold]

OpenAsTrade == PosAt(i)

\* the position entered at bar n is no longer open
Closed(n) == ~(pc = "hold" /\ i = n)

TradesOf(n) == {a \in 1..Len(trades) : EntryIdx(trades[a]) = n}

\* the running combination's simulation has ended
RunEnded == pc \in {"combo", "return", "done", "end"} /\ combo_counter >= 1

----------------------------------------------------------------------------
(* C1 *)

\* C1: a bar examined while a position is open whose close is at or above
\* the take-profit price always ends the position with reason TP, whatever
\* else holds on that bar: no recorded trade has such an exit bar with
\* another reason, and no such bar is passed over while the position is open.
C1_TakeProfitFirst ==
    /\ \A t \in TradeSet : TpHit(t, ExitIdx(t)) => t.reason = "TP"
    /\ pc = "hold" => \A k \in (i + 1)..(j - 1) : ~TpHit(OpenAsTrade, k)

\* a trade closed with TP on a bar that also crossed the stop-loss price and
\* was the last bar of the holding window
C1_Witness ==
    \E t \in TradeSet :
        /\ t.reason = "TP"
        /\ SlHit(t, ExitIdx(t))
        /\ TimeoutHit(t, ExitIdx(t))

----------------------------------------------------------------------------
(* C2 *)

\* C2: every recorded trade exits on the first bar after its entry bar on
\* which one of the four checks holds, its reason is the first of TP, SL,
\* Signal, Timeout whose check holds there, and no check held on the bars
\* strictly between entry and exit.
C2_FirstMatchWins ==
    \A t \in TradeSet :
        LET e == EntryIdx(t)
            x == ExitIdx(t)
        IN  /\ e < x
            /\ \A k \in (e + 1)..(x - 1) : ~AnyHit(t, k)
            /\ AnyHit(t, x)
            /\ t.reason = "TP" <=> TpHit(t, x)
            /\ t.reason = "SL" <=> (~TpHit(t, x) /\ SlHit(t, x))
            /\ t.reason = "Signal" <=> (~TpHit(t, x) /\ ~SlHit(t, x) /\ SellHit(t, x))
            /\ t.reason = "Timeout" <=>
                   (~TpHit(t, x) /\ ~SlHit(t, x) /\ ~SellHit(t, x) /\ TimeoutHit(t, x))

\* a trade held over a bar on which no check held, then closed by the sell
\* signal on a bar that was also the timeout bar
C2_Witness ==
    \E t \in TradeSet :
        /\ ExitIdx(t) >= EntryIdx(t) + 2
        /\ t.reason = "Signal"
        /\ TimeoutHit(t, ExitIdx(t))

----------------------------------------------------------------------------
(* C3 *)

\* C3: within one run at most one position is open at any bar: should_buy is
\* never evaluated and no entry is made at a bar after the entry bar and up
\* to the exit bar of a position (closed or still open), so the holding
\* intervals of the run's trades never overlap.
C3_OnePosition ==
    /\ \A t \in TradeSet : \A n \in evaluated \cup entries :
           ~(EntryIdx(t) < n /\ n <= ExitIdx(t))
    /\ pc = "hold" => \A n \in evaluated \cup entries : n <= i
    /\ \A a, b \in 1..Len(trades) :
           a < b => ExitIdx(trades[a]) < EntryIdx(trades[b])

\* a trade during whose holding interval a bar gave a true buy decision that
\* was not acted upon, followed by a later trade of the same run
C3_Witness ==
    \E a, b \in 1..Len(trades) :
        /\ a < b
        /\ \E n \in (EntryIdx(trades[a]) + 1)..ExitIdx(trades[a]) :
               should_buy(Window(df, n + 1), ran.weights, ran.threshold).decision

----------------------------------------------------------------------------
(* C4 *)

\* C4: the entry price is the close of the entry bar and the take-profit and
\* stop-loss prices are entry +/- mult x ATR of the entry bar; they stay the
\* same while the position is open, and every later bar is compared against
\* them: a trade's reason is TP or SL exactly as its exit bar's close stands
\* to the entry bar's levels, and no bar before the exit crossed them.
C4_LevelsFixedAtEntry ==
    /\ pc = "hold" =>
           /\ position.buy_price = Row(i).close
           /\ position.tp = 10 * Row(i).close + ran.tp_mult * Row(i).ATR
           /\ position.sl = 10 * Row(i).close - ran.sl_mult * Row(i).ATR
    /\ \A t \in TradeSet :
           /\ t.entry_price = Round2(Row(EntryIdx(t)).close)
           /\ t.reason = "TP" <=> TpHit(t, ExitIdx(t))
           /\ t.reason = "SL" <=> (~TpHit(t, ExitIdx(t)) /\ SlHit(t, ExitIdx(t)))
           /\ \A k \in (EntryIdx(t) + 1)..(ExitIdx(t) - 1) :
                  ~TpHit(t, k) /\ ~SlHit(t, k)

\* a trade closed with SL by the entry bar's level on a bar whose own ATR
\* would have put the stop-loss price below the close
C4_Witness ==
    \E t \in TradeSet :
        /\ t.reason = "SL"
        /\ Row(ExitIdx(t)).ATR # Row(EntryIdx(t)).ATR
        /\ 10 * Row(ExitIdx(t)).close >
               10 * Row(EntryIdx(t)).close - t.sl_mult * Row(ExitIdx(t)).ATR

----------------------------------------------------------------------------
(* C5 *)

\* entry price 100, ATR at entry 2, tp_multiple 2.5: take-profit price 105
Scenario5(n) ==
    /\ Row(n).close = 100000
    /\ Row(n).ATR = 2000
    /\ ran.tp_mult = 25

\* C5 as stated: in the scenario, a later bar of the holding window with close
\* >= 105 before which no stop-loss or timeout condition fired closes the
\* position on that bar with reason TP and pnl = close - 100.
C5_Original ==
    \A n \in entries : (Scenario5(n) /\ Closed(n)) =>
        \A k \in (n + 1)..(n + ran.max_hold - 1) :
            ( /\ Row(k).close >= 105000
              /\ \A m \in (n + 1)..(k - 1) :
                     ~SlHit(PosAt(n), m) /\ ~TimeoutHit(PosAt(n), m) )
            => \E t \in TradeSet :
                   /\ EntryIdx(t) = n /\ ExitIdx(t) = k
                   /\ t.reason = "TP"
                   /\ t.pnl = Row(k).close - 100000

\* C5 (amended): in the scenario, a later bar of the holding window with close
\* >= 105 before which no exit condition at all (take-profit, stop-loss, sell
\* signal or timeout) fired closes the position on that bar with reason TP
\* and pnl = close - 100.
C5_TakeProfitScenario ==
    \A n \in entries : (Scenario5(n) /\ Closed(n)) =>
        \A k \in (n + 1)..(n + ran.max_hold - 1) :
            ( /\ Row(k).close >= 105000
              /\ \A m \in (n + 1)..(k - 1) : ~AnyHit(PosAt(n), m) )
            => \E t \in TradeSet :
                   /\ EntryIdx(t) = n /\ ExitIdx(t) = k
                   /\ t.reason = "TP"
                   /\ t.pnl = Row(k).close - 100000

\* the scenario's position held over one bar and closed with TP at close 105
C5_Witness ==
    \E n \in entries : \E t \in TradeSet :
        /\ Scenario5(n)
        /\ EntryIdx(t) = n
        /\ ExitIdx(t) = n + 2
        /\ Row(n + 2).close = 105000
        /\ t.reason = "TP"
        /\ t.pnl = 5000

----------------------------------------------------------------------------
(* C6 *)

\* the Cartesian product of the five candidate lists
Product(s) ==
    {[tp_mult |-> s.tp_multipliers[a], sl_mult |-> s.sl_multipliers[b],
      max_hold |-> s.max_holds[c], weights |-> s.buy_weights[d],
      threshold |-> s.buy_thresholds[e]] :
        a \in 1..Len(s.tp_multipliers), b \in 1..Len(s.sl_multipliers),
        c \in 1..Len(s.max_holds), d \in 1..Len(s.buy_weights),
        e \in 1..Len(s.buy_thresholds)}

RunSet == {runs[a] : a \in 1..Len(runs)}

----------------------------------------------------------------------------
(* C7 *)

ExitReasons == {"TP", "SL", "Signal", "Timeout"}

RecordedOnce(n) ==
    /\ Cardinality(TradesOf(n)) = 1
    /\ \A a \in TradesOf(n) :
           /\ n < ExitIdx(trades[a])
           /\ ExitIdx(trades[a]) <= n + ran.max_hold - 1
           /\ trades[a].reason \in ExitReasons

\* C7 as stated: for every max_hold >= 1, every position opened (should_buy
\* true at a flat bar i) is, once closed, recorded as exactly one trade with
\* exit bar in i+1..i+max_hold-1 and a reason among TP, SL, Signal, Timeout.
C7_Original ==
    \A n \in entries : Closed(n) => RecordedOnce(n)

\* C7 (amended): the same for every max_hold >= 2; every trade of the log
\* belongs to a position the run opened.
C7_EveryPositionRecorded ==
    /\ ran.max_hold >= 2 => \A n \in entries : Closed(n) => RecordedOnce(n)
    /\ \A t \in TradeSet : EntryIdx(t) \in entries

\* a finished run with max_hold >= 2 that opened several positions, one of
\* them closed only by the timeout
C7_Witness ==
    /\ RunEnded
    /\ ran.max_hold >= 2
    /\ Cardinality(entries) >= 2
    /\ \E t \in TradeSet : t.reason = "Timeout"

----------------------------------------------------------------------------
(* C8 *)

----------------------------------------------------------------------------
(* C9 *)

\* the sum of the weights of the true signals, each with its own weight
WeightOfTrue(w, weights) ==
    (IF buy_signal_ema_rsi_vwap(w) THEN weights[1] ELSE 0)
    + (IF buy_signal_rsi_only(w) THEN weights[2] ELSE 0)
    + (IF buy_signal_macd_adx(w) THEN weights[3] ELSE 0)

\* the bar at which should_buy was called last in this run
LastEvaluated == CHOOSE n \in evaluated : \A m \in evaluated : m <= n

\* C9: at every bar where should_buy is called its score is the sum of the
\* weights of exactly the true signals, each paired with the weight at its
\* own position, its decision is true exactly when score >= threshold, and
\* the simulator opens a position at that bar exactly when the decision is
\* true (the score is the one the trade records).
C9_WeightedScore ==
    /\ evaluated # {} =>
           LET n == LastEvaluated
               w == Window(df, n + 1)
               r == should_buy(w, ran.weights, ran.threshold)
           IN  /\ r.score = WeightOfTrue(w, ran.weights)
               /\ r.decision <=> WeightOfTrue(w, ran.weights) >= ran.threshold
               /\ n \in entries <=> r.decision
    /\ pc = "hold" => position.score = WeightOfTrue(Window(df, i + 1), ran.weights)
    /\ \A t \in TradeSet :
           t.buy_signal_score =
               Round2(WeightOfTrue(Window(df, EntryIdx(t) + 1), ran.weights))

\* a position opened at a bar where only the second and the third signal are
\* true and their weights add up to exactly the threshold
C9_Witness ==
    /\ evaluated # {}
    /\ LastEvaluated \in entries
    /\ LET w == Window(df, LastEvaluated + 1)
       IN  /\ ~buy_signal_ema_rsi_vwap(w)
           /\ buy_signal_rsi_only(w)
           /\ buy_signal_macd_adx(w)
           /\ ran.weights[2] + ran.weights[3] = ran.threshold

----------------------------------------------------------------------------
(* C10 *)

RangingRule(b, entry_price, rsi_upper) ==
    \/ b.RSI > rsi_upper
    \/ 10 * b.close < 10 * entry_price - 10 * b.ATR
    \/ b.close < b.VWAP

TrendingRule(b, entry_price, rsi_upper) ==
    \/ b.EMA9 < b.EMA21
    \/ b.RSI > rsi_upper
    \/ 10 * b.close < 10 * entry_price - 15 * b.ATR
    \/ b.MACD_diff < 0
    \/ b.ADX < 20

\* C10: on every bar examined while a position is open the regime is
\* trending or ranging and nothing else; when it is ranging should_sell is
\* exactly (RSI above the upper adaptive bound) or (close below entry price
\* minus 1.0 x ATR) or (close below VWAP), whatever the trend-following
\* conditions are; when it is trending should_sell is exactly the trending
\* rule set.
C10_RegimeRuleSets ==
    pc = "hold" =>
        LET w == Window(df, j + 1)
            b == Row(j)
            upper == get_adaptive_rsi_bounds(w)[2]
            regime == detect_market_regime(w)
            sell == should_sell(w, position.buy_price)
        IN  /\ regime \in {"trending", "ranging"}
            /\ regime = "trending" <=> b.ADX > 25
            /\ regime = "ranging" => (sell <=> RangingRule(b, position.buy_price, upper))
            /\ regime = "trending" => (sell <=> TrendingRule(b, position.buy_price, upper))

\* a position that the sell signal left open on a ranging bar on which all
\* three trend-following exit conditions were true, closed there only by the
\* timeout
C10_Witness ==
    \E t \in TradeSet :
        LET x == ExitIdx(t)
            b == Row(x)
        IN  /\ t.reason = "Timeout"
            /\ detect_market_regime(Window(df, x + 1)) = "ranging"
            /\ b.EMA9 < b.EMA21
            /\ b.MACD_diff < 0
            /\ b.ADX < 20
            /\ ~should_sell(Window(df, x + 1), Row(EntryIdx(t)).close)

-----------------------------------------------------------------------------
(* C11 *)

\* C11: two runs of the simulation over the same bar series with the same
\* parameter combination end with identical trade logs: the same trades, in
\* the same order, equal in every field.
C11_SameRunSameLog ==
    \A a, b \in 1..Len(logs) : runs[a] = runs[b] => logs[a] = logs[b]

\* one combination run twice, each run ending with the same two or more trades
C11_Witness ==
    \E a, b \in 1..Len(logs) :
        /\ a < b
        /\ runs[a] = runs[b]
        /\ Len(logs[a]) >= 2
        /\ logs[b] = logs[a]

-----------------------------------------------------------------------------
(* C12 *)

\* no position of the ended run was open at bar n
FlatAt(n) == \A t \in TradeSet : ~(EntryIdx(t) < n /\ n <= ExitIdx(t))

\* C12: on a 60-bar series whose bar 20 has fast EMA above slow EMA, RSI 45
\* with bounds (40, 70), ADX 30 and close above VWAP, for every combination of
\* the default lists should_buy says enter at bar 20 and, when the run is flat
\* at bar 20, the run opens a position at the close of bar 20.
C12_EntryAtBar20 ==
    (RunEnded /\ Len(df) = 60) =>
        LET b == Row(20)
            w == Window(df, 21)
        IN  (/\ b.EMA9 > b.EMA21
             /\ b.RSI = 45
             /\ get_adaptive_rsi_bounds(w) = <<40, 70>>
             /\ b.ADX = 30
             /\ b.close > b.VWAP) =>
                /\ should_buy(w, ran.weights, ran.threshold).decision
                /\ FlatAt(20) =>
                       \E t \in TradeSet :
                           /\ EntryIdx(t) = 20
                           /\ t.entry_price = b.close

-----------------------------------------------------------------------------
(* C13 *)

\* the runs ended so far that recorded no trade
EmptyRuns == {k \in 1..Len(logs) : logs[k] = <<>>}

\* C13: a run or a whole sweep with zero trades raises no division by zero:
\* a run without trades ends with an empty log and stores nothing, and main
\* evaluates the divisions of its summary (win rate, average PnL) only when
\* the trade count is above zero, printing "No trades executed." otherwise.
C13_NoDivisionByZero ==
    /\ \A k \in 1..Len(inserted) : inserted[k] # <<>>
    /\ Len(inserted) = Len(logs) - Cardinality(EmptyRuns)
    /\ summary.kind = "stats" =>
           /\ summary.total > 0
           /\ "error" \notin DOMAIN summary.win_rate
           /\ "error" \notin DOMAIN summary.avg_pnl
           /\ summary.win_rate.den = summary.total
           /\ summary.avg_pnl.den = summary.total
    /\ pc = "end" =>
           /\ summary.kind \in {"stats", "no_trades"}
           /\ summary.kind = "no_trades" <=> all_trades = <<>>

\* a sweep of two or more combinations that ended without any trade and
\* printed the no-trade summary
C13_Witness ==
    /\ pc = "end"
    /\ Len(logs) >= 2
    /\ EmptyRuns = 1..Len(logs)
    /\ all_trades = <<>>
    /\ summary = [kind |-> "no_trades"]

-----------------------------------------------------------------------------
(* C14 *)

\* a combination whose take-profit price is below, or whose stop-loss price
\* is above, the entry price
Degenerate(c) == c.tp_mult < 0 \/ c.sl_mult < 0

\* C14: a combination with a negative tp or sl multiplier is rejected before
\* its simulation starts: no bar is evaluated, no position is opened and no
\* trade is recorded for it.
C14_DegenerateRejected ==
    (combo_counter >= 1 /\ Degenerate(ran)) =>
        /\ evaluated = {}
        /\ entries = {}
        /\ trades = <<>>
        /\ \A k \in 1..Len(all_trades) :
               all_trades[k].tp_mult >= 0 /\ all_trades[k].sl_mult >= 0

-----------------------------------------------------------------------------
(* C15 *)

\* what should_buy answers at bar n, read from the bars up to n alone
DecisionAt(n) == should_buy(Window(df, n + 1), ran.weights, ran.threshold).decision

\* C15: the decisions of a run depend only on the bars seen so far, whatever
\* bars follow and however many: at every bar n at which the run is flat it
\* enters exactly when should_buy on the bars up to n says so (the decision
\* it takes at n when enough bars follow), and every exit is decided by the
\* checks on the bars up to the exit bar.
C15_NoLookAhead ==
    RunEnded =>
        /\ \A n \in 0..(Len(df) - 1) : FlatAt(n) => (n \in entries <=> DecisionAt(n))
        /\ \A t \in TradeSet :
               /\ AnyHit(t, ExitIdx(t))
               /\ \A k \in (EntryIdx(t) + 1)..(ExitIdx(t) - 1) : ~AnyHit(t, k)

-----------------------------------------------------------------------------
(* C16 *)

IsPrefix(s, t) == Len(s) <= Len(t) /\ SubSeq(t, 1, Len(s)) = s

RECURSIVE Concat(_, _)
\* the logs from position k on, one after the other
Concat(ls, k) == IF k > Len(ls) THEN <<>> ELSE ls[k] \o Concat(ls, k + 1)

\* trade t carries the five parameters of combination c
OwnTrade(t, c) ==
    /\ t.tp_mult = c.tp_mult
    /\ t.sl_mult = c.sl_mult
    /\ t.max_hold = c.max_hold
    /\ t.buy_weights = c.weights
    /\ t.buy_threshold = c.threshold

-----------------------------------------------------------------------------
(* C17 *)

\* the frame prefix handed to the signal functions at the bar being examined
CurWindow == IF pc = "hold" THEN Window(df, j + 1) ELSE Window(df, i + 1)

\* the ATR values of the last RollWindow bars of w added up, newest first
LastAtrs(w) ==
    LET f[k \in 0..RollWindow] ==
            IF k = 0 THEN 0 ELSE f[k - 1] + w[Len(w) - k + 1].ATR
    IN  f[RollWindow]

\* C17: get_adaptive_rsi_bounds returns (45, 65) exactly when the window has
\* at least 20 bars and its latest ATR is strictly above the mean of its last
\* 20 ATR values, and (40, 70) in every other case, equality and windows of
\* fewer than 20 bars included; it never returns another pair.
C17_AdaptiveBounds ==
    LET w == CurWindow
        n == Len(w)
        b == get_adaptive_rsi_bounds(w)
    IN  /\ b \in {<<45, 65>>, <<40, 70>>}
        /\ n < RollWindow => b = <<40, 70>>
        /\ n >= RollWindow =>
               /\ RollWindow * w[n].ATR > LastAtrs(w) => b = <<45, 65>>
               /\ RollWindow * w[n].ATR = LastAtrs(w) => b = <<40, 70>>
               /\ RollWindow * w[n].ATR < LastAtrs(w) => b = <<40, 70>>

\* a bar examined with a window of 20 or more bars whose latest ATR equals
\* the mean of the last 20, given the wide bounds
C17_Witness ==
    /\ pc \in {"scan", "hold"}
    /\ Len(CurWindow) >= RollWindow
    /\ CurWindow[Len(CurWindow)].ATR > 0
    /\ RollWindow * CurWindow[Len(CurWindow)].ATR = LastAtrs(CurWindow)
    /\ get_adaptive_rsi_bounds(CurWindow) = <<40, 70>>

-----------------------------------------------------------------------------
(* C18 *)

\* the bars after bar n at which the run has evaluated should_buy
EvaluatedAfter(n) == {m \in evaluated : m > n}

\* C18: the trade log of a run is strictly ordered in time: every trade is
\* entered before it exits, the next trade is entered at the bar after the
\* exit bar of the previous one or later, the exit bar itself is never used
\* for an entry decision, and after an exit at bar j the next bar at which
\* should_buy is evaluated is j + 1.
C18_EntryAfterExit ==
    /\ \A k \in 1..Len(trades) :
           /\ trades[k].entry_time < trades[k].exit_time
           /\ ExitIdx(trades[k]) \notin evaluated
           /\ EvaluatedAfter(ExitIdx(trades[k])) # {} =>
                  ExitIdx(trades[k]) + 1 \in evaluated
    /\ \A k \in 1..(Len(trades) - 1) :
           /\ trades[k].exit_time < trades[k + 1].entry_time
           /\ EntryIdx(trades[k + 1]) >= ExitIdx(trades[k]) + 1
    /\ (pc = "scan" /\ trades # <<>>
           /\ EvaluatedAfter(ExitIdx(trades[Len(trades)])) = {}) =>
               i = ExitIdx(trades[Len(trades)]) + 1

\* two consecutive trades of a run, the second entered at the bar right
\* after the exit bar of the first
C18_Witness ==
    \E k \in 1..(Len(trades) - 1) :
        EntryIdx(trades[k + 1]) = ExitIdx(trades[k]) + 1

-----------------------------------------------------------------------------
(* C19 *)

\* the weight vectors and thresholds of the default lists
DefaultCombo(c) == c.weights \in {W1, W2} /\ c.threshold \in {500, 600, 700}

\* ADX of bar n at or below 25: detect_market_regime says ranging
RangingBar(n) == ~(Row(n).ADX > 25)

\* C19: with the default weight vectors and thresholds no position is ever
\* opened on a ranging bar (ADX <= 25): on such a bar buy_signal_ema_rsi_vwap
\* and buy_signal_macd_adx are both false, the score is at most the second
\* weight, which is below every default threshold, and so the entry bar of
\* every trade is a trending bar.
C19_NoEntryOnRangingBar ==
    DefaultCombo(ran) =>
        /\ \A n \in evaluated :
               RangingBar(n) =>
                   LET w == Window(df, n + 1)
                       s == should_buy(w, ran.weights, ran.threshold)
                   IN  /\ ~buy_signal_ema_rsi_vwap(w)
                       /\ ~buy_signal_macd_adx(w)
                       /\ s.score <= ran.weights[2]
                       /\ s.score < ran.threshold
                       /\ ~s.decision
                       /\ n \notin entries
        /\ \A t \in TradeSet :
               /\ ~RangingBar(EntryIdx(t))
               /\ detect_market_regime(Window(df, EntryIdx(t) + 1)) = "trending"

\* a ranging bar with ADX exactly 25 and a positive MACD_diff at which
\* should_buy was evaluated with the RSI signal true, scoring the second
\* weight and opening nothing, in a run that entered at a trending bar
C19_Witness ==
    \E n \in evaluated :
        /\ Row(n).ADX = 25
        /\ Row(n).MACD_diff > 0
        /\ buy_signal_rsi_only(Window(df, n + 1))
        /\ should_buy(Window(df, n + 1), ran.weights, ran.threshold).score = ran.weights[2]
        /\ n \notin entries
        /\ \E m \in entries : Row(m).ADX > 25

-----------------------------------------------------------------------------
(* C20 *)

\* the number of bars the while loop of the run may evaluate
MaxIterations == IF Len(df) > ran.max_hold THEN Len(df) - ran.max_hold ELSE 0

\* C20: the simulation loop of every combination terminates.  The bar index
\* i strictly increases on every iteration of the while loop: by one when
\* no trade is taken, to the exit bar plus one when a trade is taken, and it
\* stays at the entry bar while the holding window is examined; the loop
\* makes at most len(df) - max_hold iterations; and the whole sweep
\* eventually returns after its last combination.
C20_Terminates ==
    /\ [][(pc \in {"scan", "hold"} /\ pc' = "scan") => i' > i]_vars
    /\ [][(pc = "scan" /\ pc' = "scan") => i' = i + 1]_vars
    /\ [][(pc = "hold" /\ pc' = "scan" /\ trades' # trades) => i' = j + 1]_vars
    /\ [][(pc \in {"scan", "hold"} /\ pc' = "hold") => i' = i]_vars
    /\ [](Cardinality(evaluated) <= MaxIterations)
    /\ <>(pc = "done" /\ combo_counter = total_combinations)

\* a sweep that has returned after runs that took trades
C20_Witness ==
    /\ pc = "done"
    /\ combo_counter = total_combinations
    /\ Len(all_trades) >= 2
    /\ evaluated # {}

====
